---- MODULE Spec2Model ----
(***************************************************************************)
(* Model of tiktok_collection_dl/downloader.py: the collection-metadata    *)
(* resolution and folder-naming pipeline and the run() entry point.        *)
(*                                                                         *)
(* A Python str is a sequence of Unicode code points (naturals), so that   *)
(* percent-decoding, case folding, regular-expression matching and         *)
(* sanitizing are computed character by character as the code does.        *)
(* An Optional[str] is a record [some, val]; NoValue is Python's None.     *)
(***************************************************************************)
EXTENDS Naturals, Integers, Sequences, FiniteSets, TLC

VARIABLES
    pc,           \* position in run() / in the function under study
    url,          \* the url argument
    url_shape,    \* how the url was put together: [name, idlen, rest]
    cfg,          \* the configuration mapping read by run()
    fetch,        \* outcome of the metadata subprocess of get_collection_info
    info,         \* the CollectionInfo record
    history,      \* the records handed to strip_uploader_prefix so far
    url_title,    \* result of extract_title_from_tiktok_url(url)
    template,     \* the folder template given to apply_folder_template
    folder_name,  \* result of apply_folder_template
    out_dir,      \* output directory, a sequence of path components
    cmd,          \* the assembled command
    download,     \* outcome of the download subprocess
    status        \* value returned by run()

vars == <<pc, url, url_shape, cfg, fetch, info, history, url_title, template,
          folder_name, out_dir, cmd, download, status>>

----------------------------------------------------------------------------
(* Optional[str] *)

NoValue == [some |-> FALSE, val |-> <<>>]

Some(s) == [some |-> TRUE, val |-> s]

\* Python truthiness of an Optional[str]: None and "" are both falsy.
Truthy(o) == o.some /\ o.val # <<>>

\* `value or ""`
OrEmpty(o) == IF Truthy(o) THEN o.val ELSE <<>>

\* `text or None`
OrNone(s) == IF s = <<>> THEN NoValue ELSE Some(s)

----------------------------------------------------------------------------
(* Characters and str primitives *)

\* str.isspace() / regular-expression \s for str patterns
SpaceChars ==
    {9, 10, 11, 12, 13, 28, 29, 30, 31, 32, 133, 160, 5760}
        \cup (8192..8202) \cup {8232, 8233, 8239, 8287, 12288}

\* line boundaries of str.splitlines()
LineBreaks == {10, 11, 12, 13, 28, 29, 30, 133, 8232, 8233}

\* [\x00-\x1f]
ControlChars == 0..31

\* [<>:"/\\|?*]
IllegalChars == {60, 62, 58, 34, 47, 92, 124, 63, 42}

\* [/?#]
BoundaryChars == {47, 63, 35}

\* lstrip("-_ ")
SeparatorChars == {45, 95, 32}

\* \d on the ASCII range
IsDigit(c) == c \in 48..57

IsHex(c) == c \in (48..57) \cup (65..70) \cup (97..102)

HexVal(c) ==
    IF c \in 48..57 THEN c - 48
    ELSE IF c \in 65..70 THEN c - 55
    ELSE c - 87

\* bytes.decode("utf-8", "replace") of one byte that is not part of a
\* multi-byte sequence: ASCII maps to itself, anything else to U+FFFD.
DecodeByte(b) == IF b < 128 THEN b ELSE 65533

\* str.lower() on the ASCII range
LowerChar(c) == IF c \in 65..90 THEN c + 32 ELSE c

Lower(s) == [i \in 1..Len(s) |-> LowerChar(s[i])]

\* str.upper() on the ASCII range
UpperChar(c) == IF c \in 97..122 THEN c - 32 ELSE c

Upper(s) == [i \in 1..Len(s) |-> UpperChar(s[i])]

Drop(s, n) == SubSeq(s, n + 1, Len(s))

\* s[i:].startswith(p), i counted from 1
StartsWithAt(s, p, i) ==
    /\ i + Len(p) - 1 <= Len(s)
    /\ SubSeq(s, i, i + Len(p) - 1) = p

StartsWith(s, p) == StartsWithAt(s, p, 1)

\* str.lstrip(chars)
LStripChars(s, S) ==
    IF \A i \in 1..Len(s) : s[i] \in S THEN <<>>
    ELSE SubSeq(s, CHOOSE i \in 1..Len(s) :
                      s[i] \notin S /\ \A j \in 1..(i - 1) : s[j] \in S,
                Len(s))

\* str.rstrip(chars)
RStripChars(s, S) ==
    IF \A i \in 1..Len(s) : s[i] \in S THEN <<>>
    ELSE SubSeq(s, 1, CHOOSE i \in 1..Len(s) :
                         s[i] \notin S /\ \A j \in (i + 1)..Len(s) : s[j] \in S)

\* str.strip()
Strip(s) == RStripChars(LStripChars(s, SpaceChars), SpaceChars)

\* filter out the characters of S: re.sub("[S]", "", s)
RECURSIVE RemoveChars(_, _)
RemoveChars(s, S) ==
    IF s = <<>> THEN <<>>
    ELSE IF Head(s) \in S THEN RemoveChars(Tail(s), S)
    ELSE <<Head(s)>> \o RemoveChars(Tail(s), S)

\* str.replace(old, new): leftmost non-overlapping occurrences
RECURSIVE ReplaceFrom(_, _, _, _)
ReplaceFrom(s, old, new, i) ==
    IF i > Len(s) THEN <<>>
    ELSE IF StartsWithAt(s, old, i)
         THEN new \o ReplaceFrom(s, old, new, i + Len(old))
         ELSE <<s[i]>> \o ReplaceFrom(s, old, new, i + 1)

Replace(s, old, new) == ReplaceFrom(s, old, new, 1)

\* urllib.parse.unquote: %XX with two hex digits is decoded, any other
\* percent sign stays literal.
RECURSIVE UnquoteFrom(_, _)
UnquoteFrom(s, i) ==
    IF i > Len(s) THEN <<>>
    ELSE IF /\ s[i] = 37
            /\ i + 2 <= Len(s)
            /\ IsHex(s[i + 1])
            /\ IsHex(s[i + 2])
         THEN <<DecodeByte(16 * HexVal(s[i + 1]) + HexVal(s[i + 2]))>>
                  \o UnquoteFrom(s, i + 3)
         ELSE <<s[i]>> \o UnquoteFrom(s, i + 1)

Unquote(s) == UnquoteFrom(s, 1)

\* str.split(delim): the list of parts
RECURSIVE SplitFrom(_, _, _, _)
SplitFrom(s, delim, i, cur) ==
    IF i > Len(s) THEN <<cur>>
    ELSE IF StartsWithAt(s, delim, i)
         THEN <<cur>> \o SplitFrom(s, delim, i + Len(delim), <<>>)
         ELSE SplitFrom(s, delim, i + 1, Append(cur, s[i]))

Split(s, delim) == SplitFrom(s, delim, 1, <<>>)

\* text.splitlines()[0] of a text that is not empty after strip()
FirstLine(s) ==
    IF \E i \in 1..Len(s) : s[i] \in LineBreaks
    THEN SubSeq(s, 1, (CHOOSE i \in 1..Len(s) :
                          s[i] \in LineBreaks
                          /\ \A j \in 1..(i - 1) : s[j] \notin LineBreaks) - 1)
    ELSE s

----------------------------------------------------------------------------
(* Module constants *)

\* _SUPPORTED_FIELDS = ("uploader", "playlist_title")
SupportedFields == <<"uploader", "playlist_title">>

\* the text of a field name
FieldText(f) ==
    IF f = "uploader" THEN <<117, 112, 108, 111, 97, 100, 101, 114>>
    ELSE <<112, 108, 97, 121, 108, 105, 115, 116, 95, 116, 105, 116, 108, 101>>

\* f"%({field})s"
Placeholder(f) == <<37, 40>> \o FieldText(f) \o <<41, 115>>

\* _DELIM = "|||"
Delim == <<124, 124, 124>>

\* "NA"
NA == <<78, 65>>

\* "/collection/"
CollectionMarker == <<47, 99, 111, 108, 108, 101, 99, 116, 105, 111, 110, 47>>

\* the fallback folder name "collection"
FallbackName == <<99, 111, 108, 108, 101, 99, 116, 105, 111, 110>>

\* \d{10,}
MinIdDigits == 10

\* {f: None for f in _SUPPORTED_FIELDS}
EmptyInfo == [uploader |-> NoValue, playlist_title |-> NoValue]

----------------------------------------------------------------------------
(* extract_title_from_tiktok_url *)

\* number of consecutive digits of s from position p on
RECURSIVE DigitRunLen(_, _)
DigitRunLen(s, p) ==
    IF p <= Len(s) /\ IsDigit(s[p]) THEN 1 + DigitRunLen(s, p + 1) ELSE 0

\* -(\d{10,})(?:[/?#]|$) matched with its dash at position p.  The greedy
\* digit run is maximal: giving digits back leaves a digit, never a boundary,
\* next.  $ matches at the end and before a final line feed.
IdMatchAt(s, p) ==
    /\ p <= Len(s)
    /\ s[p] = 45
    /\ LET k == DigitRunLen(s, p + 1)
           q == p + 1 + k
       IN /\ k >= MinIdDigits
          /\ \/ q > Len(s)
             \/ s[q] \in BoundaryChars
             \/ s[q] = 10 /\ q = Len(s)

\* lengths n of a group (.+?) that starts right after a marker at position i
\* and is followed by an id; `.` matches anything but a line feed
NameMatchLens(s, i) ==
    {n \in 1..Len(s) :
        /\ IdMatchAt(s, i + Len(CollectionMarker) + n)
        /\ \A j \in (i + Len(CollectionMarker))..(i + Len(CollectionMarker) + n - 1) :
              s[j] # 10}

\* positions at which re.search can complete a match
MatchStarts(s) ==
    {i \in 1..Len(s) :
        StartsWithAt(s, CollectionMarker, i) /\ NameMatchLens(s, i) # {}}

SetMin(S) == CHOOSE x \in S : \A y \in S : x <= y

SetMax(S) == CHOOSE x \in S : \A y \in S : x >= y

\* the name group as a greedy (.+) would capture it
MatchGroup1Greedy(s) ==
    LET i == SetMin(MatchStarts(s))
        n == SetMax(NameMatchLens(s, i))
    IN SubSeq(s, i + Len(CollectionMarker), i + Len(CollectionMarker) + n - 1)

\* match.group(1): leftmost start, then the shortest name
MatchGroup1(s) ==
    LET i == SetMin(MatchStarts(s))
        n == SetMin(NameMatchLens(s, i))
    IN SubSeq(s, i + Len(CollectionMarker), i + Len(CollectionMarker) + n - 1)

extract_title_from_tiktok_url(u) ==
    IF MatchStarts(u) # {}
    THEN OrNone(Strip(Unquote(MatchGroup1(u))))
    ELSE NoValue

----------------------------------------------------------------------------
(* get_collection_info *)

\* The argument f is the outcome of subprocess.run: either the binary is not
\* found (FileNotFoundError, f.found = FALSE) or it ran and left f.stdout.

\* line = result.stdout.strip().splitlines()[0] if result.stdout.strip() else ""
OutputLine(out) == IF Strip(out) # <<>> THEN FirstLine(Strip(out)) ELSE <<>>

\* raw = parts[i].strip() if i < len(parts) else ""   (i counted from 1 here)
RawField(parts, i) == IF i <= Len(parts) THEN Strip(parts[i]) ELSE <<>>

\* if raw and raw.upper() != "NA"
Usable(raw) == raw # <<>> /\ Upper(raw) # NA

\* the loop body without the check that the URL already gave a title
StoreFieldNoPrecedence(inf, parts, i) ==
    LET field == SupportedFields[i]
        raw   == RawField(parts, i)
    IN IF ~Usable(raw) THEN inf
       ELSE [inf EXCEPT ![field] = Some(Unquote(raw))]

\* one pass of the loop body for the field at position i
StoreField(inf, parts, i) ==
    LET field == SupportedFields[i]
        raw   == RawField(parts, i)
    IN IF ~Usable(raw) THEN inf
       ELSE IF field = "playlist_title" /\ Truthy(inf.playlist_title) THEN inf
       ELSE [inf EXCEPT ![field] = Some(Unquote(raw))]

\* Step 1: the title from the URL
InfoFromUrl(u) ==
    LET t == extract_title_from_tiktok_url(u)
    IN IF Truthy(t) THEN [EmptyInfo EXCEPT !.playlist_title = t] ELSE EmptyInfo

\* the subprocess call without its try/except
FetchErrorUncaught(f) == ~f.found

\* does the missing binary's FileNotFoundError leave get_collection_info?
\* `except FileNotFoundError: pass` catches it.
FetchErrorEscapes(f) == FALSE

get_collection_info(u, f) ==
    IF ~f.found THEN InfoFromUrl(u)
    ELSE LET parts == Split(OutputLine(f.stdout), Delim)
         IN StoreField(StoreField(InfoFromUrl(u), parts, 1), parts, 2)

----------------------------------------------------------------------------
(* strip_uploader_prefix *)

\* the strip without its `if stripped:` guard
strip_uploader_prefix_unguarded(inf) ==
    LET title    == OrEmpty(inf.playlist_title)
        uploader == OrEmpty(inf.uploader)
    IN IF title = <<>> \/ uploader = <<>> THEN inf
       ELSE IF StartsWith(Lower(title), Lower(uploader))
            THEN [inf EXCEPT !.playlist_title =
                     Some(LStripChars(Drop(title, Len(uploader)), SeparatorChars))]
            ELSE inf

\* the strip without its startswith test
strip_uploader_prefix_unchecked(inf) ==
    LET title    == OrEmpty(inf.playlist_title)
        uploader == OrEmpty(inf.uploader)
    IN IF title = <<>> \/ uploader = <<>> THEN inf
       ELSE LET stripped == LStripChars(Drop(title, Len(uploader)),
                                        SeparatorChars)
            IN IF stripped # <<>>
               THEN [inf EXCEPT !.playlist_title = Some(stripped)]
               ELSE inf

strip_uploader_prefix(inf) ==
    LET title    == OrEmpty(inf.playlist_title)
        uploader == OrEmpty(inf.uploader)
    IN IF title = <<>> \/ uploader = <<>> THEN inf
       ELSE IF StartsWith(Lower(title), Lower(uploader))
            THEN LET stripped == LStripChars(Drop(title, Len(uploader)),
                                             SeparatorChars)
                 IN IF stripped # <<>>
                    THEN [inf EXCEPT !.playlist_title = Some(stripped)]
                    ELSE inf
            ELSE inf

----------------------------------------------------------------------------
(* sanitize_folder_name and apply_folder_template *)

\* re.sub(r"\s+", " ", name)
RECURSIVE CollapseSpaces(_)
CollapseSpaces(s) ==
    IF s = <<>> THEN <<>>
    ELSE IF Head(s) \in SpaceChars
         THEN <<32>> \o CollapseSpaces(LStripChars(s, SpaceChars))
         ELSE <<Head(s)>> \o CollapseSpaces(Tail(s))

\* the sanitizer without its final strip()
sanitize_folder_name_untrimmed(name) ==
    CollapseSpaces(RemoveChars(RemoveChars(name, IllegalChars), ControlChars))

sanitize_folder_name(name) ==
    Strip(CollapseSpaces(RemoveChars(RemoveChars(name, IllegalChars),
                                     ControlChars)))

\* position of the first ")" of s at or after i, or 0
FirstCloseParen(s, i) ==
    IF \E j \in i..Len(s) : s[j] = 41
    THEN CHOOSE j \in i..Len(s) :
            s[j] = 41 /\ \A k \in i..(j - 1) : s[k] # 41
    ELSE 0

\* %\([^)]+\)s matched at position i: the position of its last character,
\* or 0 when there is no match at i
PlaceholderEnd(s, i) ==
    IF i + 1 <= Len(s) /\ s[i] = 37 /\ s[i + 1] = 40
    THEN LET j == FirstCloseParen(s, i + 2)
         IN IF j > i + 2 /\ j + 1 <= Len(s) /\ s[j + 1] = 115
            THEN j + 1
            ELSE 0
    ELSE 0

\* re.sub(r"%\([^)]+\)s", "", s): one left-to-right pass
RECURSIVE DeletePlaceholdersFrom(_, _)
DeletePlaceholdersFrom(s, i) ==
    IF i > Len(s) THEN <<>>
    ELSE IF PlaceholderEnd(s, i) # 0
         THEN DeletePlaceholdersFrom(s, PlaceholderEnd(s, i) + 1)
         ELSE <<s[i]>> \o DeletePlaceholdersFrom(s, i + 1)

DeletePlaceholders(s) == DeletePlaceholdersFrom(s, 1)

\* the loop over info.items(): uploader first, then playlist_title
SubstituteFields(tmpl, inf) ==
    Replace(Replace(tmpl, Placeholder("uploader"), OrEmpty(inf.uploader)),
            Placeholder("playlist_title"), OrEmpty(inf.playlist_title))

\* the text handed to `or "collection"`
SanitizedText(tmpl, inf) ==
    sanitize_folder_name(DeletePlaceholders(SubstituteFields(tmpl, inf)))

apply_folder_template(tmpl, inf) ==
    IF SanitizedText(tmpl, inf) # <<>>
    THEN SanitizedText(tmpl, inf)
    ELSE FallbackName

----------------------------------------------------------------------------
(* Paths, archive and command *)

\* the components pathlib keeps of a relative text: split on "/", empty and
\* "." components dropped, ".." kept
PathParts(name) ==
    SelectSeq(Split(name, <<47>>), LAMBDA c : c # <<>> /\ c # <<46>>)

\* dir / name
PathJoin(dir, name) ==
    IF StartsWith(name, <<47>>)
    THEN <<<<47>>>> \o PathParts(name)
    ELSE dir \o PathParts(name)

\* out_dir / f".yt-dlp-archive-{url_hash}.txt"; the digest is kept as the
\* url it is computed from
get_archive_path(dir, u) == [parent |-> dir, hash_of |-> u]

\* the flags of metadata_flags that carry the album tag
metadata_flags(c, album_name) ==
    IF c.embed_collection_as_album
    THEN IF Truthy(album_name)
         THEN [kind |-> "postprocessor-args", album |-> album_name.val]
         ELSE [kind |-> "parse-metadata", album |-> <<>>]
    ELSE [kind |-> "none", album |-> <<>>]

build_command(u, dir, archive, c, album_name) ==
    [output  |-> dir,
     archive |-> archive,
     flags   |-> metadata_flags(c, album_name),
     url     |-> u]

----------------------------------------------------------------------------
(* Values a variable holds before the code assigns it *)

NoShape == [name |-> <<>>, idlen |-> 0, rest |-> <<>>]

NoConfig ==
    [use_collection_folder |-> FALSE,
     embed_collection_as_album |-> FALSE,
     strip_uploader_from_collection_title |-> FALSE,
     collection_folder_template |-> NoValue]

NotFetched == [found |-> FALSE, stdout |-> <<>>, called |-> FALSE]

NoCommand ==
    build_command(<<>>, <<>>, get_archive_path(<<>>, <<>>), NoConfig, NoValue)

NotStarted == [kind |-> "none", code |-> 0]

----------------------------------------------------------------------------
(* Inputs *)

\* all concatenations of at most n members of the set of texts P
RECURSIVE Concats(_, _)
Concats(P, n) ==
    IF n = 0 THEN {<<>>}
    ELSE Concats(P, n - 1)
             \cup {a \o b : a \in Concats(P, n - 1), b \in P}

\* a run of k digits "7"
Digits(k) == [i \in 1..k |-> 55]

\* "/@u", the part of a URL in front of the collection marker
UrlPrefix == <<47, 64, 117>>

\* .../collection/<name>-<D><rest> with <D> a run of idlen digits
MkUrl(shape) ==
    UrlPrefix \o CollectionMarker \o shape.name \o <<45>>
        \o Digits(shape.idlen) \o shape.rest

\* what the metadata subprocess can do
BinaryMissing == [found |-> FALSE, stdout |-> <<>>, called |-> TRUE]

Ran(out) == [found |-> TRUE, stdout |-> out, called |-> TRUE]

----------------------------------------------------------------------------
(* run(url, base_out_dir, cfg) *)

\* exit statuses 0..MaxExitCode of the download process are explored
MaxExitCode == 2

\* `return 1` of the FileNotFoundError handler
MissingBinaryStatus == 1

\* `return 130` of the KeyboardInterrupt handler
InterruptStatus == 130

\* base_out_dir: the directory "out"
BaseOutDir == <<<<111, 117, 116>>>>

\* "%(playlist_title)s", the default of cfg.get("collection_folder_template", ...)
DefaultTemplate == Placeholder("playlist_title")

\* collection names of the urls given to run(): "M-v", ".." and "%20"
RunNames == {<<77, 45, 118>>, <<46, 46>>, <<37, 50, 48>>}

RunShapes ==
    [name : RunNames, idlen : {MinIdDigits - 1, MinIdDigits}, rest : {<<>>}]

\* configured folder templates: none, "%(uploader)s %(playlist_title)s", "."
RunTemplates ==
    {NoValue,
     Some(Placeholder("uploader") \o <<32>> \o Placeholder("playlist_title")),
     Some(<<46>>)}

RunConfigs ==
    [use_collection_folder : BOOLEAN,
     embed_collection_as_album : BOOLEAN,
     strip_uploader_from_collection_title : BOOLEAN,
     collection_folder_template : RunTemplates]

\* fields the metadata query prints: "", "NA", "M" / "", "na", "M - v", ".."
RunUploaders == {<<>>, NA, <<77>>}

RunTitles == {<<>>, <<110, 97>>, <<77, 32, 45, 32, 118>>, <<46, 46>>}

RunFetches ==
    {BinaryMissing} \cup {Ran(u \o Delim \o t) : u \in RunUploaders, t \in RunTitles}

\* subprocess.run(cmd) of the download: the binary is missing, the operator
\* interrupts, or the process exits with a code
DownloadOutcomes ==
    {[kind |-> "missing", code |-> 0], [kind |-> "interrupt", code |-> 0]}
        \cup {[kind |-> "exited", code |-> c] : c \in 0..MaxExitCode}

\* the try/except around the download
RunStatus(o) ==
    IF o.kind = "exited" THEN o.code
    ELSE IF o.kind = "missing" THEN MissingBinaryStatus
    ELSE InterruptStatus

Init ==
    /\ pc = "start"
    /\ url_shape \in RunShapes
    /\ url = MkUrl(url_shape)
    /\ cfg \in RunConfigs
    /\ fetch = NotFetched
    /\ info = EmptyInfo
    /\ history = <<>>
    /\ url_title = NoValue
    /\ template = <<>>
    /\ folder_name = NoValue
    /\ out_dir = <<>>
    /\ cmd = NoCommand
    /\ download = NotStarted
    /\ status = 0

\* needs_info = use_collection_folder or embed_collection_as_album
RunNeedsInfo ==
    /\ pc = "start"
    /\ pc' = IF cfg.use_collection_folder \/ cfg.embed_collection_as_album
             THEN "fetch"
             ELSE "folder"
    /\ info' = EmptyInfo
    /\ UNCHANGED <<url, url_shape, cfg, fetch, history, url_title, template,
                   folder_name, out_dir, cmd, download, status>>

\* info = get_collection_info(url)
RunFetch ==
    /\ pc = "fetch"
    /\ \E f \in RunFetches :
          /\ fetch' = f
          /\ IF FetchErrorEscapes(f)
             THEN /\ pc' = "crashed"
                  /\ UNCHANGED <<info, url_title>>
             ELSE /\ pc' = "strip"
                  /\ url_title' = extract_title_from_tiktok_url(url)
                  /\ info' = get_collection_info(url, f)
    /\ UNCHANGED <<url, url_shape, cfg, history, template, folder_name,
                   out_dir, cmd, download, status>>

\* if cfg.get("strip_uploader_from_collection_title"): info = strip_uploader_prefix(info)
RunStrip ==
    /\ pc = "strip"
    /\ pc' = "folder"
    /\ IF cfg.strip_uploader_from_collection_title
       THEN /\ history' = Append(history, info)
            /\ info' = strip_uploader_prefix(info)
       ELSE UNCHANGED <<history, info>>
    /\ UNCHANGED <<url, url_shape, cfg, fetch, url_title, template,
                   folder_name, out_dir, cmd, download, status>>

\* the folder name and out_dir
RunFolder ==
    /\ pc = "folder"
    /\ pc' = "prepare"
    /\ IF cfg.use_collection_folder
       THEN LET t == IF cfg.collection_folder_template.some
                     THEN cfg.collection_folder_template.val
                     ELSE DefaultTemplate
            IN /\ template' = t
               /\ folder_name' = Some(apply_folder_template(t, info))
               /\ out_dir' = PathJoin(BaseOutDir, apply_folder_template(t, info))
       ELSE /\ out_dir' = BaseOutDir
            /\ UNCHANGED <<template, folder_name>>
    /\ UNCHANGED <<url, url_shape, cfg, fetch, info, history, url_title, cmd,
                   download, status>>

\* out_dir.mkdir(...), the album name, the archive path and the command
RunPrepare ==
    /\ pc = "prepare"
    /\ pc' = "download"
    /\ LET album_name == IF cfg.embed_collection_as_album
                         THEN info.playlist_title
                         ELSE NoValue
       IN cmd' = build_command(url, out_dir, get_archive_path(out_dir, url),
                               cfg, album_name)
    /\ UNCHANGED <<url, url_shape, cfg, fetch, info, history, url_title,
                   template, folder_name, out_dir, download, status>>

\* return subprocess.run(cmd, check=False).returncode, or a handler's status
RunDownload ==
    /\ pc = "download"
    /\ pc' = "done"
    /\ \E o \in DownloadOutcomes :
          /\ download' = o
          /\ status' = RunStatus(o)
    /\ UNCHANGED <<url, url_shape, cfg, fetch, info, history, url_title,
                   template, folder_name, out_dir, cmd>>

Next ==
    \/ RunNeedsInfo
    \/ RunFetch
    \/ RunStrip
    \/ RunFolder
    \/ RunPrepare
    \/ RunDownload

Spec == Init /\ [][Next]_vars

----------------------------------------------------------------------------
(* Properties of run() *)

AfterStrip == pc \in {"folder", "prepare", "download", "done"}

AfterPrepare == pc \in {"download", "done"}

\* C2: in run(), whenever the URL yields a title, the playlist_title used for
\* the folder name and the album tag is that URL-derived title unchanged,
\* whatever uploader was fetched and whether or not
\* strip_uploader_from_collection_title is set.
C2_UrlTitleNeverStripped ==
    (fetch.called /\ Truthy(url_title) /\ AfterStrip) =>
        /\ info.playlist_title = url_title
        /\ (AfterPrepare /\ cfg.embed_collection_as_album) =>
               cmd.flags.album = url_title.val

\* the metadata binary was not found
FetchBinaryMissing == fetch.called /\ ~fetch.found

\* C7: when the metadata binary is not found, no error leaves
\* get_collection_info (run() is never ended at the fetch stage), the record
\* has no uploader and exactly the title the URL gave (none if it gave none),
\* and run() is on its way through folder resolution and command assembly to
\* the download step, where the command is the one built for out_dir.
C7_MissingFetchBinaryIsNotFatal ==
    FetchBinaryMissing =>
        /\ pc \in {"strip", "folder", "prepare", "download", "done"}
        /\ info.uploader = NoValue
        /\ info.playlist_title = extract_title_from_tiktok_url(url)
        /\ AfterPrepare => (cmd.output = out_dir /\ cmd.url = url)

\* a run with the metadata binary missing and a title from the URL stands at
\* the download step, in the folder named after that title
C7_Witness ==
    /\ FetchBinaryMissing
    /\ pc = "download"
    /\ Truthy(info.playlist_title)
    /\ cfg.use_collection_folder
    /\ cmd.output = BaseOutDir \o <<folder_name.val>>

\* C8: the status run() returns when the download binary is missing is
\* non-zero and is returned by no run whose download process started and
\* exited, nor by a run the operator interrupted.
C8_MissingBinaryStatusDistinct ==
    pc = "done" =>
        /\ download.kind = "missing" => status # 0
        /\ download.kind # "missing" =>
               status # RunStatus([kind |-> "missing", code |-> 0])

\* p is base plus one component that is neither "." nor ".." and holds no "/"
IsDirectChild(p, base) ==
    /\ Len(p) = Len(base) + 1
    /\ SubSeq(p, 1, Len(base)) = base
    /\ p[Len(p)] \notin {<<46>>, <<46, 46>>}
    /\ \A i \in 1..Len(p[Len(p)]) : p[Len(p)][i] # 47

\* C10: with use_collection_folder set, the output directory run() creates,
\* passes to the command and places the archive file in is a proper direct
\* child of base_out_dir: the folder name is one path component, neither "."
\* nor "..".
C10_OutDirIsDirectChild ==
    (cfg.use_collection_folder /\ pc \in {"prepare", "download", "done"}) =>
        /\ IsDirectChild(out_dir, BaseOutDir)
        /\ folder_name.val \notin {<<46>>, <<46, 46>>}
        /\ AfterPrepare =>
               /\ cmd.output = out_dir
               /\ cmd.archive.parent = out_dir

----------------------------------------------------------------------------
(* get_collection_info followed by strip_uploader_prefix calls *)

\* at most MaxStrips calls of strip_uploader_prefix are explored
MaxStrips == 2

\* a printed field is made of at most MaxFieldPieces members of FieldPieces
MaxFieldPieces == 2

\* "M", "-", " ", "NA", "na", "%20", "%", "v"
FieldPieces ==
    {<<77>>, <<45>>, <<32>>, NA, <<110, 97>>, <<37, 50, 48>>, <<37>>, <<118>>}

\* collection names "v", "%20" and "M%2Dv"
InfoShapes ==
    [name : {<<118>>, <<37, 50, 48>>, <<77, 37, 50, 68, 118>>},
     idlen : {MinIdDigits},
     rest : {<<>>}]

\* the uploader fields "", "M" and "na"
InfoUploaders == {<<>>, <<77>>, <<110, 97>>}

\* what follows the title on standard output: nothing, a second line, a
\* third field
InfoRests == {<<>>, <<10, 118>>, Delim \o <<118>>}

InfoFetches ==
    {BinaryMissing}
        \cup {Ran(t) : t \in Concats(FieldPieces, MaxFieldPieces)}
        \cup {Ran(u \o Delim \o t \o r) :
                 u \in InfoUploaders,
                 t \in Concats(FieldPieces, MaxFieldPieces),
                 r \in InfoRests}

InitInfo ==
    /\ pc = "info"
    /\ url_shape \in InfoShapes
    /\ url = MkUrl(url_shape)
    /\ cfg = NoConfig
    /\ fetch = NotFetched
    /\ info = EmptyInfo
    /\ history = <<>>
    /\ url_title = NoValue
    /\ template = <<>>
    /\ folder_name = NoValue
    /\ out_dir = <<>>
    /\ cmd = NoCommand
    /\ download = NotStarted
    /\ status = 0

\* info = get_collection_info(url)
InfoFetch ==
    /\ pc = "info"
    /\ \E f \in InfoFetches :
          /\ fetch' = f
          /\ IF FetchErrorEscapes(f)
             THEN /\ pc' = "crashed"
                  /\ UNCHANGED <<info, url_title>>
             ELSE /\ pc' = "resolved"
                  /\ url_title' = extract_title_from_tiktok_url(url)
                  /\ info' = get_collection_info(url, f)
    /\ UNCHANGED <<url, url_shape, cfg, history, template, folder_name,
                   out_dir, cmd, download, status>>

\* info = strip_uploader_prefix(info)
StripApply ==
    /\ pc = "resolved"
    /\ Len(history) < MaxStrips
    /\ history' = Append(history, info)
    /\ info' = strip_uploader_prefix(info)
    /\ UNCHANGED <<pc, url, url_shape, cfg, fetch, url_title, template,
                   folder_name, out_dir, cmd, download, status>>

NextInfo ==
    \/ InfoFetch
    \/ StripApply

SpecInfo == InitInfo /\ [][NextInfo]_vars

----------------------------------------------------------------------------
(* strip_uploader_prefix on any record *)

\* titles of at most MaxTitleLen and uploaders of at most MaxUploaderLen
\* characters are explored
MaxTitleLen == 4

MaxUploaderLen == 2

\* the characters "M", "m", "-" and "v"
StripAlphabet == {<<77>>, <<109>>, <<45>>, <<118>>}

OptTexts(n) == {NoValue} \cup {Some(t) : t \in Concats(StripAlphabet, n)}

InitStrip ==
    /\ pc = "resolved"
    /\ info \in [uploader : OptTexts(MaxUploaderLen),
                 playlist_title : OptTexts(MaxTitleLen)]
    /\ url_shape = NoShape
    /\ url = <<>>
    /\ cfg = NoConfig
    /\ fetch = NotFetched
    /\ history = <<>>
    /\ url_title = NoValue
    /\ template = <<>>
    /\ folder_name = NoValue
    /\ out_dir = <<>>
    /\ cmd = NoCommand
    /\ download = NotStarted
    /\ status = 0

NextStrip == StripApply

SpecStrip == InitStrip /\ [][NextStrip]_vars

----------------------------------------------------------------------------
(* extract_title_from_tiktok_url on urls .../collection/<X>-<D><rest> *)

\* a name is made of at most MaxNamePieces members of NamePieces, and <D> has
\* at most MaxIdDigits digits
MaxNamePieces == 2

MaxIdDigits == 11

\* "a", "-", "7", "%20", "%", a line feed, and "-7777777777/": a dash, ten
\* digits and a boundary
NamePieces ==
    {<<97>>, <<45>>, <<55>>, <<37, 50, 48>>, <<37>>, <<10>>,
     <<45>> \o Digits(MinIdDigits) \o <<47>>}

\* what follows <D>: nothing, "/", "?x", "#", or "/v-7777777777"
ExtractRests ==
    {<<>>, <<47>>, <<63, 120>>, <<35>>,
     <<47, 118, 45>> \o Digits(MinIdDigits)}

ExtractShapes ==
    [name : Concats(NamePieces, MaxNamePieces),
     idlen : 1..MaxIdDigits,
     rest : ExtractRests]

InitExtract ==
    /\ pc = "extract"
    /\ url_shape \in ExtractShapes
    /\ url = MkUrl(url_shape)
    /\ cfg = NoConfig
    /\ fetch = NotFetched
    /\ info = EmptyInfo
    /\ history = <<>>
    /\ url_title = NoValue
    /\ template = <<>>
    /\ folder_name = NoValue
    /\ out_dir = <<>>
    /\ cmd = NoCommand
    /\ download = NotStarted
    /\ status = 0

\* url_title = extract_title_from_tiktok_url(url)
ExtractApply ==
    /\ pc = "extract"
    /\ pc' = "extracted"
    /\ url_title' = extract_title_from_tiktok_url(url)
    /\ UNCHANGED <<url, url_shape, cfg, fetch, info, history, template,
                   folder_name, out_dir, cmd, download, status>>

NextExtract == ExtractApply

SpecExtract == InitExtract /\ [][NextExtract]_vars

----------------------------------------------------------------------------
(* apply_folder_template on any template and record *)

\* a template is made of at most MaxTemplatePieces members of TemplatePieces
MaxTemplatePieces == 3

\* "%(playlist_title)s", "%(uploader)s", "%(x)s", "%", "(x)s", ":", " ",
\* a tab, the control character 0x01, and "collection"
TemplatePieces ==
    {Placeholder("playlist_title"), Placeholder("uploader"),
     <<37, 40, 120, 41, 115>>, <<37>>, <<40, 120, 41, 115>>, <<58>>, <<32>>,
     <<9>>, <<1>>, FallbackName}

\* uploader: none or "M"; playlist_title: none, " v<tab>:" or "%(x"
TemplateInfos ==
    [uploader : {NoValue, Some(<<77>>)},
     playlist_title : {NoValue, Some(<<32, 118, 9, 58>>), Some(<<37, 40, 120>>)}]

InitTemplate ==
    /\ pc = "template"
    /\ template \in Concats(TemplatePieces, MaxTemplatePieces)
    /\ info \in TemplateInfos
    /\ url_shape = NoShape
    /\ url = <<>>
    /\ cfg = NoConfig
    /\ fetch = NotFetched
    /\ history = <<>>
    /\ url_title = NoValue
    /\ folder_name = NoValue
    /\ out_dir = <<>>
    /\ cmd = NoCommand
    /\ download = NotStarted
    /\ status = 0

\* folder_name = apply_folder_template(template, info)
TemplateApply ==
    /\ pc = "template"
    /\ pc' = "named"
    /\ folder_name' = Some(apply_folder_template(template, info))
    /\ UNCHANGED <<url, url_shape, cfg, fetch, info, history, url_title,
                   template, out_dir, cmd, download, status>>

NextTemplate == TemplateApply

SpecTemplate == InitTemplate /\ [][NextTemplate]_vars

----------------------------------------------------------------------------
(* Properties of get_collection_info and strip_uploader_prefix *)

\* the record get_collection_info returned
ReturnedInfo == IF history = <<>> THEN info ELSE history[1]

\* the title field of the first output line
FetchedTitleField == RawField(Split(OutputLine(fetch.stdout), Delim), 2)

\* C1: the playlist_title get_collection_info returns is the URL-derived
\* title when extract_title_from_tiktok_url(url) yields one, whatever was
\* fetched; else the percent-decoded fetched title when that field is usable
\* (not empty, not "NA"); else no value.
C1_TitlePrecedence ==
    (pc = "resolved" /\ fetch.called) =>
        ReturnedInfo.playlist_title =
            IF url_title.some
            THEN url_title
            ELSE IF fetch.found /\ FetchedTitleField # <<>>
                    /\ Upper(FetchedTitleField) # NA
                 THEN Some(Unquote(FetchedTitleField))
                 ELSE NoValue

\* the URL and the fetch both gave a title, and the URL's one was kept
C1_Witness ==
    /\ pc = "resolved"
    /\ fetch.found
    /\ url_title.some
    /\ Usable(FetchedTitleField)
    /\ Unquote(FetchedTitleField) # url_title.val
    /\ ReturnedInfo.playlist_title = url_title

\* a value is absent or a non-empty text
AbsentOrNonEmpty(o) == o = NoValue \/ (o.some /\ o.val # <<>>)

WellFormedInfo(inf) ==
    /\ DOMAIN inf = {"uploader", "playlist_title"}
    /\ AbsentOrNonEmpty(inf.uploader)
    /\ AbsentOrNonEmpty(inf.playlist_title)

\* the records before and after the i-th strip_uploader_prefix call
BeforeStrip(i) == history[i]

AfterStripCall(i) == IF i = Len(history) THEN info ELSE history[i + 1]

\* C9: after get_collection_info and any number of strip_uploader_prefix
\* calls the record has exactly the keys uploader and playlist_title, each
\* value absent or a non-empty text, and a strip never turns a present title
\* into an empty or absent one.
C9_InfoWellFormed ==
    pc = "resolved" =>
        /\ WellFormedInfo(info)
        /\ \A i \in 1..Len(history) :
              /\ WellFormedInfo(BeforeStrip(i))
              /\ BeforeStrip(i).playlist_title.some =>
                     Truthy(AfterStripCall(i).playlist_title)

\* a strip shortened a fetched title, and a later strip met a title that is
\* nothing but the uploader and left it alone
C9_Witness ==
    /\ pc = "resolved"
    /\ Len(history) = 2
    /\ history[1].playlist_title # history[2].playlist_title
    /\ Lower(history[2].playlist_title.val) = Lower(history[2].uploader.val)
    /\ info = history[2]

NoLongerPrefixed(inf) ==
    ~StartsWith(Lower(OrEmpty(inf.playlist_title)), Lower(OrEmpty(inf.uploader)))

----------------------------------------------------------------------------
(* Properties of extract_title_from_tiktok_url *)

\* <X> is not empty and has no line feed
OneLineName(x) == x # <<>> /\ \A i \in 1..Len(x) : x[i] # 10

\* t holds a dash, at least 10 digits and then a boundary character or, when
\* atEnd, the end of t; the dash is not before position from
HoldsId(t, from, atEnd) ==
    \E j \in from..Len(t) :
        /\ t[j] = 45
        /\ \E m \in MinIdDigits..Len(t) :
              /\ j + m <= Len(t)
              /\ \A d \in 1..m : IsDigit(t[j + d])
              /\ \/ j + m + 1 <= Len(t) /\ t[j + m + 1] \in BoundaryChars
                 \/ atEnd /\ j + m = Len(t)

\* C3 as stated, on the names that leave trimming aside (<X> not empty, on one
\* line, its decoded text without whitespace at either end) and on a <rest>
\* that holds no further id: the result is the percent-decoded <X> when <D>
\* has at least 10 digits, for every such <X>, also one that itself holds a
\* dash, 10 or more digits and a boundary character; it is no value when <D>
\* has fewer than 10 digits.
C3_DecodedNameIffLongId ==
    (/\ pc = "extracted"
     /\ OneLineName(url_shape.name)
     /\ Strip(Unquote(url_shape.name)) = Unquote(url_shape.name)
     /\ ~HoldsId(url_shape.rest, 1, TRUE)) =>
        IF url_shape.idlen >= MinIdDigits
        THEN url_title = Some(Unquote(url_shape.name))
        ELSE url_title = NoValue

\* <X> is not empty, has no line feed and, after its first character, no dash
\* followed by 10 or more digits and a boundary character
PlainName(x) == OneLineName(x) /\ ~HoldsId(x, 2, FALSE)

\* C3 amended: for a non-empty <X> on one line without an id of its own, the
\* result is the percent-decoded <X> with surrounding whitespace trimmed (no
\* value if nothing is left) when <D> has at least 10 digits; when <D> has
\* fewer and no id follows in <rest>, it is no value.
C3_TrimmedNameOfPlainUrl ==
    (pc = "extracted" /\ PlainName(url_shape.name)) =>
        /\ url_shape.idlen >= MinIdDigits =>
               url_title = OrNone(Strip(Unquote(url_shape.name)))
        /\ (url_shape.idlen < MinIdDigits /\ ~HoldsId(url_shape.rest, 1, TRUE)) =>
               url_title = NoValue

\* a percent-encoded name in front of a long id was decoded and trimmed
C3_Witness ==
    /\ pc = "extracted"
    /\ PlainName(url_shape.name)
    /\ url_shape.idlen >= MinIdDigits
    /\ url_title.some
    /\ url_title.val # url_shape.name
    /\ url_title.val # Unquote(url_shape.name)

----------------------------------------------------------------------------
(* Properties of apply_folder_template *)

\* t holds a substring %(<name>)s with a non-empty <name> free of ")"
HasPlaceholder(t) ==
    \E i \in 1..Len(t) : \E j \in (i + 3)..(Len(t) - 1) :
        /\ t[i] = 37
        /\ t[i + 1] = 40
        /\ t[j] = 41
        /\ t[j + 1] = 115
        /\ \A k \in (i + 2)..(j - 1) : t[k] # 41

\* C4: the folder name apply_folder_template returns holds no substring of
\* the placeholder form %(<name>)s, whatever the template and the record.
C4_NoPlaceholderInFolderName ==
    pc = "named" => ~HasPlaceholder(folder_name.val)

\* none of < > : " / \ | ? *, no control character, no whitespace at either
\* end, no two whitespace characters in a row, and not empty
SafeName(t) ==
    /\ t # <<>>
    /\ \A i \in 1..Len(t) : t[i] \notin {60, 62, 58, 34, 47, 92, 124, 63, 42}
    /\ \A i \in 1..Len(t) : t[i] > 31
    /\ t[1] \notin SpaceChars
    /\ t[Len(t)] \notin SpaceChars
    /\ \A i \in 1..(Len(t) - 1) : ~(t[i] \in SpaceChars /\ t[i + 1] \in SpaceChars)

\* C5 as stated: the folder name is safe, and it is "collection" exactly when
\* the substituted and sanitized text is empty.
C5_SafeAndFallbackIffEmpty ==
    pc = "named" =>
        /\ SafeName(folder_name.val)
        /\ folder_name.val = FallbackName <=> SanitizedText(template, info) = <<>>

\* C5 amended: the folder name is safe; it is "collection" when the
\* substituted and sanitized text is empty, and that text otherwise (which
\* may itself read "collection").
C5_SafeAndFallbackWhenEmpty ==
    pc = "named" =>
        /\ SafeName(folder_name.val)
        /\ SanitizedText(template, info) = <<>> => folder_name.val = FallbackName
        /\ SanitizedText(template, info) # <<>> =>
               folder_name.val = SanitizedText(template, info)

\* a template that is not empty sanitized to nothing and got the fallback
C5_Witness ==
    /\ pc = "named"
    /\ template # <<>>
    /\ SubstituteFields(template, info) # <<>>
    /\ SanitizedText(template, info) = <<>>
    /\ folder_name.val = FallbackName

====
